---- MODULE Spec2Model ----
(***************************************************************************)
(* Model of bank.py: the in-memory account store `banking`, the           *)
(* spreadsheet snapshot bank_data.xlsx, and the two CSV transaction logs  *)
(* deposits.csv and withdrawals.csv.                                       *)
(*                                                                         *)
(* Amounts and balances are Python floats (float(input(...))).  A float   *)
(* is modelled as a record: a finite value (integers only, so that the    *)
(* arithmetic is exact), +inf, -inf or nan, with IEEE-754 arithmetic and  *)
(* comparison on those four kinds.  datetime.now() is the fixed text Now. *)
(***************************************************************************)
EXTENDS Integers, Sequences, FiniteSets, TLC

(* ------------------------------ bounds -------------------------------- *)
NumIds == 2          \* size of the modelled slice of the id space
MaxAmount == 1       \* largest finite amount the operator types
MaxBalance == 2      \* finite balances are explored up to this value
MaxTx == 2           \* longest transaction sequence explored per account
MaxLog == 1          \* most data rows explored per log written by the menu
MaxOldRows == 2      \* most rows below the first row of a pre-existing log
MaxAppends == 3      \* appends explored on one log by the log specification
MaxLedgerLog == 2    \* most data rows per log explored by the ledger specification

(* ------------------------- program constants -------------------------- *)
FirstAccountNo == 100000

(* ------------------------------ floats -------------------------------- *)
Fin(n) == [k |-> "fin", v |-> n]
PInf == [k |-> "inf", v |-> 0]
NInf == [k |-> "ninf", v |-> 0]
NaN == [k |-> "nan", v |-> 0]

\* x < y on floats: false whenever a nan is involved
FLt(x, y) ==
    /\ x.k # "nan"
    /\ y.k # "nan"
    /\ \/ x.k = "ninf" /\ y.k # "ninf"
       \/ x.k = "fin" /\ y.k = "inf"
       \/ x.k = "fin" /\ y.k = "fin" /\ x.v < y.v

\* x == y on floats: nan is equal to nothing, itself included
FEq(x, y) == x.k # "nan" /\ y.k # "nan" /\ x = y

FLe(x, y) == FLt(x, y) \/ FEq(x, y)

FNeg(x) ==
    CASE x.k = "fin" -> Fin(0 - x.v)
      [] x.k = "inf" -> NInf
      [] x.k = "ninf" -> PInf
      [] OTHER -> NaN

\* x + y on floats
FAdd(x, y) ==
    CASE x.k = "nan" \/ y.k = "nan" -> NaN
      [] x.k = "fin" /\ y.k = "fin" -> Fin(x.v + y.v)
      [] x.k = "fin" -> y
      [] y.k = "fin" -> x
      [] x.k = y.k -> x
      [] OTHER -> NaN

\* x - y on floats
FSub(x, y) == FAdd(x, FNeg(y))

\* str(x) of a float, as an f-string and csv.writer render it
FStr(x) ==
    CASE x.k = "nan" -> "nan"
      [] x.k = "inf" -> "inf"
      [] x.k = "ninf" -> "-inf"
      [] x.v < 0 -> "-" \o ToString(0 - x.v) \o ".0"
      [] OTHER -> ToString(x.v) \o ".0"

(* ------------------------- operator's inputs -------------------------- *)
\* the slice of str(random.randint(100000, 999999)) that is explored
IdSpace == {ToString(FirstAccountNo + i) : i \in 0..(NumIds - 1)}
\* what the operator may type at "Enter account number: "
MissingAccNo == "0"
AccNoInputs == IdSpace \cup {MissingAccNo}
\* what float(input("Enter amount: ")) may return
Amounts == {Fin(n) : n \in 0..MaxAmount} \cup {PInf, NaN}
\* names that pass name.replace(" ", "").isalpha()
Names == {"Asha"}
FathersNames == {"Ram"}
MotherNames == {"Sita"}
\* dates that parse with %d/%m/%Y
Dobs == {"01/01/2000"}
Now == "02-11-2026 10:00:00"

(* -------------------- spreadsheet cells (pandas) ---------------------- *)
\* a float nan standing in a text column of the data frame
NanCell == "float(nan)"
\* the texts read_excel turns into nan (keep_default_na), the empty cell included
NaStrings == {"", "NA", "NULL", "NaN", "None", "nan", "null"}

\* DataFrame.to_excel: a nan is written as an empty cell, a text as itself
WriteCell(v) == IF v = NanCell THEN "" ELSE v

\* pd.read_excel on a column without dtype: NA texts and empty cells -> nan
ReadCell(v) == IF v \in NaStrings THEN NanCell ELSE v

\* float(row.get("balance", 0) or 0)
ReadBalance(x) == IF FEq(x, Fin(0)) THEN Fin(0) ELSE x

\* str(row.get("acc_no", "")).strip() under dtype={"acc_no": str}: the
\* account numbers written are digit strings, which strip() leaves alone
ReadAccNo(v) == v

NoFile == [exists |-> FALSE, rows |-> << >>]

\* the rows with the serial column filled from range(len(df))
ExcelRows_FromZero(b, ord) ==
    [i \in 1..Len(ord) |->
        [sr_no |-> i - 1,
         acc_no |-> WriteCell(ord[i]),
         name |-> WriteCell(b[ord[i]].name),
         fathers_name |-> WriteCell(b[ord[i]].fathers_name),
         mother_name |-> WriteCell(b[ord[i]].mother_name),
         dob |-> WriteCell(b[ord[i]].dob),
         balance |-> b[ord[i]].balance]]

\* the rows save_banking_to_excel builds, in the dict's iteration order
ExcelRows(b, ord) ==
    [i \in 1..Len(ord) |->
        [sr_no |-> i,
         acc_no |-> WriteCell(ord[i]),
         name |-> WriteCell(b[ord[i]].name),
         fathers_name |-> WriteCell(b[ord[i]].fathers_name),
         mother_name |-> WriteCell(b[ord[i]].mother_name),
         dob |-> WriteCell(b[ord[i]].dob),
         balance |-> b[ord[i]].balance]]

\* save_banking_to_excel: the file after the call; a no-op without pandas
save_banking_to_excel(hasPd, b, ord, file) ==
    IF ~hasPd THEN file
    ELSE [exists |-> TRUE, rows |-> ExcelRows(b, ord)]

\* the rows load keeps: those whose acc_no is not empty after strip
LoadedRows(file) == SelectSeq(file.rows, LAMBDA r : ReadAccNo(r.acc_no) # "")

\* index of the last kept row that carries account number a
LastRowOf(rs, a) ==
    CHOOSE i \in 1..Len(rs) :
        /\ ReadAccNo(rs[i].acc_no) = a
        /\ \A j \in (i + 1)..Len(rs) : ReadAccNo(rs[j].acc_no) # a

\* keys in order of first insertion
RECURSIVE FirstKeys(_, _)
FirstKeys(rs, seen) ==
    IF rs = << >> THEN << >>
    ELSE IF ReadAccNo(Head(rs).acc_no) \in seen THEN FirstKeys(Tail(rs), seen)
    ELSE <<ReadAccNo(Head(rs).acc_no)>>
            \o FirstKeys(Tail(rs), seen \cup {ReadAccNo(Head(rs).acc_no)})

\* the record built with the balance column missed, so 0 is taken
LoadedRecord_NoBalance(r) ==
    [name |-> ReadCell(r.name),
     fathers_name |-> ReadCell(r.fathers_name),
     mother_name |-> ReadCell(r.mother_name),
     dob |-> ReadCell(r.dob),
     balance |-> Fin(0),
     transactions |-> << >>]

\* the record load builds from one row; transactions start empty
LoadedRecord(r) ==
    [name |-> ReadCell(r.name),
     fathers_name |-> ReadCell(r.fathers_name),
     mother_name |-> ReadCell(r.mother_name),
     dob |-> ReadCell(r.dob),
     balance |-> ReadBalance(r.balance),
     transactions |-> << >>]

\* load_banking_from_excel: the dict (values and key order) it returns
load_banking_from_excel(hasPd, file) ==
    IF ~hasPd \/ ~file.exists THEN [banking |-> << >>, order |-> << >>]
    ELSE LET rs == LoadedRows(file)
             keys == FirstKeys(rs, {})
         IN [banking |-> [a \in {keys[i] : i \in 1..Len(keys)} |->
                             LoadedRecord(rs[LastRowOf(rs, a)])],
             order |-> keys]

\* the first draw returned without the membership test
generate_account_no_NoRetry(b) == IdSpace

\* generate_account_no: the ids the retry loop can return
generate_account_no(b) == {a \in IdSpace : a \notin DOMAIN b}

(* --------------------------- CSV log files ---------------------------- *)
\* headers of log_deposit and log_withdrawal
Headers == <<"sr_no", "datetime", "acc_no", "name", "amount", "balance_after">>

\* csv.writer renders a cell with str(): a nan name becomes the text nan
CsvStr(v) == IF v = NanCell THEN "nan" ELSE v

\* the fit with `needed` one too small
FitRow_OffByOne(r, needed) ==
    IF Len(r) < needed - 1
    THEN r \o [j \in 1..(needed - 1 - Len(r)) |-> ""]
    ELSE SubSeq(r, 1, needed - 1)

\* r + [""] * (needed - len(r)) if len(r) < needed else r[:needed]
FitRow(r, needed) ==
    IF Len(r) < needed
    THEN r \o [j \in 1..(needed - Len(r)) |-> ""]
    ELSE SubSeq(r, 1, needed)

\* the migration taking every row, the first included, as a data row
DataRows_KeepFirst(rows) == rows

\* rows[1:] of _ensure_csv_header: what the migration takes as data rows
DataRows(rows) == SubSeq(rows, 2, Len(rows))

\* new_rows of _ensure_csv_header
MigratedRows(rows, headers) ==
    <<headers>> \o
        [i \in 1..Len(DataRows(rows)) |->
            <<ToString(i)>> \o FitRow(DataRows(rows)[i], Len(headers) - 1)]

\* _ensure_csv_header: the file after the call
_ensure_csv_header(file, headers) ==
    IF ~file.exists THEN [exists |-> TRUE, rows |-> <<headers>>]
    ELSE IF file.rows = << >> THEN [exists |-> TRUE, rows |-> <<headers>>]
    ELSE IF file.rows[1] = headers THEN file
    ELSE [exists |-> TRUE, rows |-> MigratedRows(file.rows, headers)]

\* the row count taken without allowing for the header line
_next_csv_sr_no_CountsHeader(file) ==
    IF ~file.exists THEN 1 ELSE Len(file.rows) + 1

\* _next_csv_sr_no
_next_csv_sr_no(file) ==
    IF ~file.exists THEN 1
    ELSE IF file.rows = << >> THEN 1
    ELSE IF Len(file.rows) > 1 THEN Len(file.rows) ELSE 1

\* banking.get(acc_no, {}).get("name", "")
NameOf(b, acc_no) == IF acc_no \in DOMAIN b THEN b[acc_no].name ELSE ""

\* the default of .get() taken for every account
BalanceTextOf_Default(b, acc_no) == "0"

\* banking.get(acc_no, {}).get("balance", 0): str(0) is "0", a float has ".0"
BalanceTextOf(b, acc_no) ==
    IF acc_no \in DOMAIN b THEN FStr(b[acc_no].balance) ELSE "0"

\* the row log_deposit / log_withdrawal writes
LogRow(sr, acc_no, amount, b) ==
    <<ToString(sr), Now, acc_no, CsvStr(NameOf(b, acc_no)), FStr(amount),
      BalanceTextOf(b, acc_no)>>

\* log_deposit losing its row (the write fails and the except swallows it)
log_deposit_HeaderOnly(acc_no, amount, b, file) ==
    _ensure_csv_header(file, Headers)

\* log_deposit: the file after the call
log_deposit(acc_no, amount, b, file) ==
    LET f == _ensure_csv_header(file, Headers)
    IN [exists |-> TRUE,
        rows |-> Append(f.rows, LogRow(_next_csv_sr_no(f), acc_no, amount, b))]

\* log_withdrawal: the file after the call
log_withdrawal(acc_no, amount, b, file) ==
    LET f == _ensure_csv_header(file, Headers)
    IN [exists |-> TRUE,
        rows |-> Append(f.rows, LogRow(_next_csv_sr_no(f), acc_no, amount, b))]

\* data rows of a log file (everything below its first row)
LogData(file) ==
    IF file.exists THEN SubSeq(file.rows, 2, Len(file.rows)) ELSE << >>

(* ------------------------------- state -------------------------------- *)
VARIABLES
    pd,           \* TRUE iff `import pandas` succeeded
    phase,        \* "running" inside the menu loop, "stopped" after Exit
    banking,      \* the dict: account number -> record
    order,        \* the dict's iteration (insertion) order of its keys
    xlsx,         \* bank_data.xlsx
    deposits,     \* deposits.csv
    withdrawals,  \* withdrawals.csv
    last,         \* the menu choice just handled and what it printed
    depSum,       \* history: per account, total of accepted (cheque) deposits
    wdSum         \* history: per account, total of accepted withdrawals

vars == <<pd, phase, banking, order, xlsx, deposits, withdrawals, last,
          depSum, wdSum>>

Outcome(op, acc_no, amount, result) ==
    [op |-> op, acc_no |-> acc_no, amount |-> amount, result |-> result]

\* dict assignment banking[acc_no] = rec
DictSet(b, acc_no, rec) ==
    [a \in DOMAIN b \cup {acc_no} |-> IF a = acc_no THEN rec ELSE b[a]]

\* key order after banking[acc_no] = rec
OrderSet(b, ord, acc_no) ==
    IF acc_no \in DOMAIN b THEN ord ELSE Append(ord, acc_no)

\* f"{date_time} | {what} ₹{amount}"
Description(what, amount) == Now \o " | " \o what \o " ₹" \o FStr(amount)

\* `if amount > 0:` of the deposit and cheque deposit branches
DepositAccepted(amount) == FLt(Fin(0), amount)

\* the withdraw test without its upper bound
WithdrawAccepted_NoBalanceCheck(amount, balance) == FLt(Fin(0), amount)

\* `if 0 < amount <= banking[acc_no]["balance"]:` of the withdraw branch
WithdrawAccepted(amount, balance) ==
    FLt(Fin(0), amount) /\ FLe(amount, balance)

\* what the else-branch of the withdraw test prints: "Insufficient balance."
WithdrawRejection(amount, balance) == "InsufficientFunds"

\* the stretch of the unbounded behaviour that is explored, for a given
\* number of log rows
ExploredUpTo(maxLog, rec, newBalance, log) ==
    /\ Len(rec.transactions) < MaxTx
    /\ newBalance.k = "fin" => newBalance.v <= MaxBalance
    /\ Len(LogData(log)) < maxLog

Explored(rec, newBalance, log) == ExploredUpTo(MaxLog, rec, newBalance, log)

Init ==
    /\ pd \in BOOLEAN
    /\ phase = "running"
    /\ banking = << >>
    /\ order = << >>
    /\ xlsx = NoFile
    /\ deposits = NoFile
    /\ withdrawals = NoFile
    /\ last = Outcome("start", MissingAccNo, Fin(0), "ok")
    /\ depSum = << >>
    /\ wdSum = << >>

\* choice 1 with an opening balance of 1 in the new record
CreateAccount_OpeningBalance ==
    /\ phase = "running"
    /\ \E name \in Names, fathers_name \in FathersNames,
          mother_name \in MotherNames, dob \in Dobs :
       \E acc_no \in generate_account_no(banking) :
          LET rec == [name |-> name, fathers_name |-> fathers_name,
                      mother_name |-> mother_name, dob |-> dob,
                      balance |-> Fin(1), transactions |-> << >>]
              b1 == DictSet(banking, acc_no, rec)
              o1 == OrderSet(banking, order, acc_no)
          IN /\ banking' = b1
             /\ order' = o1
             /\ xlsx' = save_banking_to_excel(pd, b1, o1, xlsx)
             /\ depSum' = DictSet(depSum, acc_no, Fin(0))
             /\ wdSum' = DictSet(wdSum, acc_no, Fin(0))
             /\ last' = Outcome("create", acc_no, Fin(0), "ok")
    /\ UNCHANGED <<pd, phase, deposits, withdrawals>>

\* choice 1: create account
CreateAccount ==
    /\ phase = "running"
    /\ \E name \in Names, fathers_name \in FathersNames,
          mother_name \in MotherNames, dob \in Dobs :
       \E acc_no \in generate_account_no(banking) :
          LET rec == [name |-> name, fathers_name |-> fathers_name,
                      mother_name |-> mother_name, dob |-> dob,
                      balance |-> Fin(0), transactions |-> << >>]
              b1 == DictSet(banking, acc_no, rec)
              o1 == OrderSet(banking, order, acc_no)
          IN /\ banking' = b1
             /\ order' = o1
             /\ xlsx' = save_banking_to_excel(pd, b1, o1, xlsx)
             /\ depSum' = DictSet(depSum, acc_no, Fin(0))
             /\ wdSum' = DictSet(wdSum, acc_no, Fin(0))
             /\ last' = Outcome("create", acc_no, Fin(0), "ok")
    /\ UNCHANGED <<pd, phase, deposits, withdrawals>>

\* the accepted branch shared by choice 2 and choice 7
CreditUpTo(maxLog, op, what, acc_no, amount) ==
    LET rec == banking[acc_no]
        newBalance == FAdd(rec.balance, amount)
        b1 == [banking EXCEPT
                 ![acc_no].balance = newBalance,
                 ![acc_no].transactions = Append(@, Description(what, amount))]
    IN /\ ExploredUpTo(maxLog, rec, newBalance, deposits)
       /\ banking' = b1
       /\ xlsx' = save_banking_to_excel(pd, b1, order, xlsx)
       /\ deposits' = log_deposit(acc_no, amount, b1, deposits)
       /\ depSum' = [depSum EXCEPT ![acc_no] = FAdd(@, amount)]
       /\ last' = Outcome(op, acc_no, amount, "ok")
       /\ UNCHANGED <<pd, phase, order, withdrawals, wdSum>>

Credit(op, what, acc_no, amount) ==
    CreditUpTo(MaxLog, op, what, acc_no, amount)

\* a branch that only prints
Rejected(op, acc_no, amount, result) ==
    /\ last' = Outcome(op, acc_no, amount, result)
    /\ UNCHANGED <<pd, phase, banking, order, xlsx, deposits, withdrawals,
                   depSum, wdSum>>

\* the else-branch reached with the log call moved out of the `if`
NotFound_StillLogs(op, acc_no) ==
    /\ last' = Outcome(op, acc_no, Fin(0), "AccountNotFound")
    /\ deposits' = log_deposit(acc_no, Fin(0), banking, deposits)
    /\ UNCHANGED <<pd, phase, banking, order, xlsx, withdrawals, depSum, wdSum>>

\* the else-branch of `if acc_no in banking:`; it only prints
NotFound(op, acc_no) == Rejected(op, acc_no, Fin(0), "AccountNotFound")

\* choice 2: deposit
DepositUpTo(maxLog) ==
    /\ phase = "running"
    /\ \E acc_no \in AccNoInputs :
          IF acc_no \in DOMAIN banking
          THEN \E amount \in Amounts :
                  IF DepositAccepted(amount)
                  THEN CreditUpTo(maxLog, "deposit", "Deposited", acc_no,
                                  amount)
                  ELSE Rejected("deposit", acc_no, amount, "InvalidAmount")
          ELSE NotFound("deposit", acc_no)

Deposit == DepositUpTo(MaxLog)

\* choice 7: cheque deposit
ChequeDepositUpTo(maxLog) ==
    /\ phase = "running"
    /\ \E acc_no \in AccNoInputs :
          IF acc_no \in DOMAIN banking
          THEN \E amount \in Amounts :
                  IF DepositAccepted(amount)
                  THEN CreditUpTo(maxLog, "cheque", "Cheque Deposited",
                                  acc_no, amount)
                  ELSE Rejected("cheque", acc_no, amount, "InvalidAmount")
          ELSE NotFound("cheque", acc_no)

ChequeDeposit == ChequeDepositUpTo(MaxLog)

\* choice 3: withdraw
WithdrawUpTo(maxLog) ==
    /\ phase = "running"
    /\ \E acc_no \in AccNoInputs :
          IF acc_no \in DOMAIN banking
          THEN \E amount \in Amounts :
                  IF WithdrawAccepted(amount, banking[acc_no].balance)
                  THEN LET rec == banking[acc_no]
                           newBalance == FSub(rec.balance, amount)
                           b1 == [banking EXCEPT
                                    ![acc_no].balance = newBalance,
                                    ![acc_no].transactions =
                                        Append(@, Description("Withdrawn", amount))]
                       IN /\ ExploredUpTo(maxLog, rec, newBalance, withdrawals)
                          /\ banking' = b1
                          /\ xlsx' = save_banking_to_excel(pd, b1, order, xlsx)
                          /\ withdrawals' =
                                log_withdrawal(acc_no, amount, b1, withdrawals)
                          /\ wdSum' = [wdSum EXCEPT ![acc_no] = FAdd(@, amount)]
                          /\ last' = Outcome("withdraw", acc_no, amount, "ok")
                          /\ UNCHANGED <<pd, phase, order, deposits, depSum>>
                  ELSE Rejected("withdraw", acc_no, amount,
                                WithdrawRejection(amount, banking[acc_no].balance))
          ELSE NotFound("withdraw", acc_no)

Withdraw == WithdrawUpTo(MaxLog)

(* ------------------- texts typed at the edit prompts ------------------ *)
\* a typed text: its content and whether blanks surround it
Texts(cores) == [ws : BOOLEAN, core : cores]
\* typed texts without surrounding blanks
PlainTexts(cores) == [ws : {FALSE}, core : cores]
\* s.strip()
Strip(t) == t.core
\* the edits explored together with the money operations
NameEdits == Texts({"", "NA"})
FatherEdits == PlainTexts({""})
MotherEdits == PlainTexts({""})
\* "31/02/2000" is no calendar date
DobEdits == PlainTexts({"", "31/02/2000"})
ParsableDobs == {"01/01/2000", "02/02/2002"}

\* datetime.strptime(new_dob, "%d/%m/%Y") succeeds; it is given the text as
\* typed, and a two-digit day with blanks around the text does not parse
DobParses(t) == t.core \in ParsableDobs /\ ~t.ws

\* the assignment made without the blank test
Edited_NoBlankTest(old, typed) == Strip(typed)

\* the field after `if new.strip(): u[field] = new.strip()`
Edited(old, typed) == IF Strip(typed) # "" THEN Strip(typed) ELSE old

\* the dob after the try/except around strptime
EditedDob(old, typed) ==
    IF Strip(typed) # "" /\ DobParses(typed) THEN Strip(typed) ELSE old

\* what choice 6 read at its four prompts and what it printed
UpdateOutcome(acc_no, typed, result) ==
    [op |-> "update", acc_no |-> acc_no, amount |-> Fin(0), result |-> result,
     typed |-> typed]

\* choice 6: customer details, optionally updated, for given sets of edits
Update(nameEdits, fatherEdits, motherEdits, dobEdits) ==
    /\ phase = "running"
    /\ \E acc_no \in AccNoInputs :
          IF acc_no \in DOMAIN banking
          THEN \E confirm \in BOOLEAN :
                  IF confirm
                  THEN \E new_name \in nameEdits, new_father \in fatherEdits,
                          new_mother \in motherEdits, new_dob \in dobEdits :
                          LET u == banking[acc_no]
                              u1 == [u EXCEPT
                                  !.name = Edited(@, new_name),
                                  !.fathers_name = Edited(@, new_father),
                                  !.mother_name = Edited(@, new_mother),
                                  !.dob = EditedDob(@, new_dob)]
                              b1 == [banking EXCEPT ![acc_no] = u1]
                          IN /\ banking' = b1
                             /\ xlsx' = save_banking_to_excel(pd, b1, order, xlsx)
                             /\ last' = UpdateOutcome(acc_no,
                                     [name |-> new_name, father |-> new_father,
                                      mother |-> new_mother, dob |-> new_dob],
                                     IF Strip(new_dob) # "" /\ ~DobParses(new_dob)
                                     THEN "InvalidDate" ELSE "ok")
                             /\ UNCHANGED <<pd, phase, order, deposits,
                                            withdrawals, depSum, wdSum>>
                  ELSE Rejected("update", acc_no, Fin(0), "viewed")
          ELSE NotFound("update", acc_no)

UpdateDetails == Update(NameEdits, FatherEdits, MotherEdits, DobEdits)

\* choices 4, 5 and 8 and an invalid choice: they only print
Inquiry ==
    /\ phase = "running"
    /\ Rejected("inquiry", MissingAccNo, Fin(0), "ok")

\* choice 9: final save, then the loop ends
Exit ==
    /\ phase = "running"
    /\ phase' = "stopped"
    /\ xlsx' = save_banking_to_excel(pd, banking, order, xlsx)
    /\ last' = Outcome("exit", MissingAccNo, Fin(0), "ok")
    /\ UNCHANGED <<pd, banking, order, deposits, withdrawals, depSum, wdSum>>

\* the next run of bank(): the store is what load returns
Start ==
    /\ phase = "stopped"
    /\ phase' = "running"
    /\ LET loaded == IF pd THEN load_banking_from_excel(pd, xlsx)
                     ELSE [banking |-> << >>, order |-> << >>]
       IN /\ banking' = loaded.banking
          /\ order' = loaded.order
          /\ depSum' = [a \in DOMAIN loaded.banking |-> depSum[a]]
          /\ wdSum' = [a \in DOMAIN loaded.banking |-> wdSum[a]]
    /\ last' = Outcome("start", MissingAccNo, Fin(0), "ok")
    /\ UNCHANGED <<pd, xlsx, deposits, withdrawals>>

Next ==
    \/ CreateAccount
    \/ Deposit
    \/ Withdraw
    \/ ChequeDeposit
    \/ UpdateDetails
    \/ Inquiry
    \/ Exit
    \/ Start

Spec == Init /\ [][Next]_vars

TypeOK ==
    /\ DOMAIN banking \subseteq IdSpace
    /\ DOMAIN banking = {order[i] : i \in 1..Len(order)}
    /\ Len(order) = Cardinality(DOMAIN banking)

(* ---------------- the log appender on pre-existing files -------------- *)
\* the header the logs had before the sr_no column was added
OldHeaders == Tail(Headers)

\* data rows of an old log: a full one and one that lost its last field
OldRows == {<<Now, "100000", "Asha", "5.0", "7.0">>,
            <<Now, "100001", "Ravi", "2.0">>}

\* data rows of a log that never had a header line
HeaderlessRows == {<<Now, "100001", "Mira", "4.0", "4.0">>}

\* data rows as the current version writes them
WideRows == {<<"1", Now, "100000", "Asha", "9.0", "9.0">>}

SeqsUpTo(S, n) == UNION {[1..k -> S] : k \in 0..n}

EmptyFile == [exists |-> TRUE, rows |-> << >>]

\* an old log: the 5-column header and old rows below it
OldFormatLogs ==
    {[exists |-> TRUE, rows |-> <<OldHeaders>> \o rest] :
        rest \in SeqsUpTo(OldRows, MaxOldRows)}

\* logs without any header line: the first row is a data row
HeaderlessLogs ==
    {[exists |-> TRUE, rows |-> rs] :
        rs \in (SeqsUpTo(HeaderlessRows, MaxOldRows)
                   \cup SeqsUpTo(WideRows, MaxOldRows)) \ {<< >>}}

InitialLogs == {NoFile, EmptyFile} \cup OldFormatLogs \cup HeaderlessLogs

\* the store handed to the appender
LogStore ==
    [a \in {"100000"} |->
        [name |-> "Asha", fathers_name |-> "Ram", mother_name |-> "Sita",
         dob |-> "01/01/2000", balance |-> Fin(1),
         transactions |-> <<Description("Deposited", Fin(1))>>]]

LogAccNos == {"100000", MissingAccNo}

InitLogWith(depositLogs, withdrawalLogs) ==
    /\ pd = FALSE
    /\ phase = "logging"
    /\ banking = LogStore
    /\ order = <<"100000">>
    /\ xlsx = NoFile
    /\ deposits \in depositLogs
    /\ withdrawals \in withdrawalLogs
    /\ last = Outcome("start", MissingAccNo, Fin(0), "ok")
    /\ depSum = [a \in {"100000"} |-> Fin(1)]
    /\ wdSum = [a \in {"100000"} |-> Fin(0)]

\* one call of log_deposit
AppendDeposit ==
    /\ phase = "logging"
    /\ Len(LogData(deposits)) < MaxAppends
    /\ \E acc_no \in LogAccNos :
          /\ deposits' = log_deposit(acc_no, Fin(1), banking, deposits)
          /\ last' = Outcome("log_deposit", acc_no, Fin(1), "ok")
    /\ UNCHANGED <<pd, phase, banking, order, xlsx, withdrawals, depSum, wdSum>>

\* one call of log_withdrawal
AppendWithdrawal ==
    /\ phase = "logging"
    /\ Len(LogData(withdrawals)) < MaxAppends
    /\ \E acc_no \in LogAccNos :
          /\ withdrawals' = log_withdrawal(acc_no, Fin(1), banking, withdrawals)
          /\ last' = Outcome("log_withdrawal", acc_no, Fin(1), "ok")
    /\ UNCHANGED <<pd, phase, banking, order, xlsx, deposits, depSum, wdSum>>

NextLog == AppendDeposit \/ AppendWithdrawal

\* appends to logs that exist already, old and headerless ones included
InitLog == InitLogWith(InitialLogs, {NoFile} \cup OldFormatLogs)
SpecLog == InitLog /\ [][NextLog]_vars

\* appends to logs that start absent or empty
InitFreshLog == InitLogWith({NoFile, EmptyFile}, {NoFile, EmptyFile})
SpecFreshLog == InitFreshLog /\ [][NextLog]_vars

(* ================= properties of the menu operations ================== *)

\* C1: in every reachable state the balance of every account in the store
\* is greater than or equal to zero.
C1_BalanceNeverNegative ==
    \A a \in DOMAIN banking : FLe(Fin(0), banking[a].balance)

\* C2: every account's balance equals the sum of its accepted deposits and
\* cheque deposits minus the sum of its accepted withdrawals.
C2_BalanceIsDepositsMinusWithdrawals ==
    \A a \in DOMAIN banking :
        FEq(banking[a].balance, FSub(depSum[a], wdSum[a]))

\* the step just taken handled menu choice `op`
Handled(op) == last'.op = op

\* the step left the store, the snapshot and both logs as they were
NothingWritten ==
    /\ banking' = banking
    /\ order' = order
    /\ xlsx' = xlsx
    /\ deposits' = deposits
    /\ withdrawals' = withdrawals

\* C3: a withdraw on an existing account with amount greater than the
\* balance signals InsufficientFunds, leaves the balance and transaction
\* sequence unchanged, writes no snapshot and appends no log row.
C3_OverdrawRejected ==
    [][(/\ Handled("withdraw")
        /\ last'.acc_no \in DOMAIN banking
        /\ FLt(banking[last'.acc_no].balance, last'.amount))
       => (/\ last'.result = "InsufficientFunds"
           /\ NothingWritten)]_vars

C3_Witness ==
    /\ last.op = "withdraw"
    /\ last.result = "InsufficientFunds"
    /\ last.acc_no \in DOMAIN banking
    /\ FLt(banking[last.acc_no].balance, last.amount)
    /\ banking[last.acc_no].balance = Fin(1)

\* C4: deposit, withdraw and cheque deposit on an existing account reject an
\* amount that is not greater than zero with InvalidAmount and leave the
\* account unchanged; InsufficientFunds is signalled only by a withdraw of a
\* positive amount that exceeds the balance.
C4_NonPositiveIsInvalidAmount ==
    [][/\ (/\ last'.op \in {"deposit", "withdraw", "cheque"}
           /\ last'.acc_no \in DOMAIN banking
           /\ ~FLt(Fin(0), last'.amount))
          => (last'.result = "InvalidAmount" /\ banking' = banking)
       /\ (/\ last'.op \in {"deposit", "withdraw", "cheque"}
           /\ last'.result = "InsufficientFunds")
          => (/\ last'.op = "withdraw"
              /\ FLt(Fin(0), last'.amount)
              /\ FLt(banking[last'.acc_no].balance, last'.amount))]_vars

\* C5: deposit, withdraw, cheque deposit and update details with an account
\* number that is no key of the store signal AccountNotFound and leave the
\* store, the snapshot and both logs unchanged; no account is created.
C5_MissingAccountChangesNothing ==
    [][(/\ last'.op \in {"deposit", "withdraw", "cheque", "update"}
        /\ last'.acc_no \notin DOMAIN banking)
       => (/\ last'.result = "AccountNotFound"
           /\ NothingWritten)]_vars

C5_Witness ==
    /\ last.op = "update"
    /\ last.result = "AccountNotFound"
    /\ last.acc_no \notin DOMAIN banking
    /\ DOMAIN banking # {}
    /\ deposits.exists

\* C6: create account stores the new record under an id that was no key of
\* the store, and every record that was in the store is unchanged.
C6_CreateTakesFreshId ==
    [][Handled("create")
       => (/\ last'.acc_no \notin DOMAIN banking
           /\ last'.acc_no \in DOMAIN banking'
           /\ \A a \in DOMAIN banking :
                 a \in DOMAIN banking' /\ banking'[a] = banking[a])]_vars

C6_Witness ==
    /\ last.op = "create"
    /\ Cardinality(DOMAIN banking) >= 2
    /\ \E a \in DOMAIN banking : a # last.acc_no /\ banking[a].balance # Fin(0)

\* C7: with the spreadsheet engine available, load(save(store)) has the
\* same account numbers as the store and, for each account, the same name,
\* father's name, mother's name, date of birth and balance.
C7_RoundTrip ==
    pd => LET l == load_banking_from_excel(pd,
                      save_banking_to_excel(pd, banking, order, xlsx))
          IN /\ DOMAIN l.banking = DOMAIN banking
             /\ \A a \in DOMAIN banking :
                   /\ l.banking[a].name = banking[a].name
                   /\ l.banking[a].fathers_name = banking[a].fathers_name
                   /\ l.banking[a].mother_name = banking[a].mother_name
                   /\ l.banking[a].dob = banking[a].dob
                   /\ l.banking[a].balance = banking[a].balance

(* ================== properties of the log appender ==================== *)

\* the data rows of a log carry the serial numbers 1..N in file order
NumberedFromOne(file) ==
    (file.exists /\ file.rows # << >>)
    => /\ file.rows[1] = Headers
       /\ \A i \in 2..Len(file.rows) : file.rows[i][1] = ToString(i - 1)

\* C8: starting from an absent or empty log file, the k-th row appended by
\* log_deposit (log_withdrawal) carries serial number k: the data rows of
\* each log carry 1..N in file order, each log numbered on its own.
C8_SerialsCountFromOne ==
    NumberedFromOne(deposits) /\ NumberedFromOne(withdrawals)

C8_Witness ==
    /\ Len(LogData(deposits)) = 3
    /\ <<deposits.rows[2][1], deposits.rows[3][1], deposits.rows[4][1]>>
          = <<"1", "2", "3">>
    /\ Len(LogData(withdrawals)) = 1
    /\ withdrawals.rows[2][1] = "1"

\* `old` is kept as row `new`: serial number sr in front, then every field
\* of `old` in its place
KeptAs(old, new, sr) ==
    /\ Len(new) = Len(Headers)
    /\ new[1] = ToString(sr)
    /\ \A j \in 1..Len(old) : j + 1 <= Len(new) /\ new[j + 1] = old[j]

\* an append found `pre` with the old 5-column header and left `post`:
\* canonical header, every old data row kept and numbered, one row added
OldHeaderMigrated(pre, post) ==
    (pre.exists /\ pre.rows # << >> /\ pre.rows[1] = OldHeaders)
    => /\ post.rows[1] = Headers
       /\ Len(post.rows) = Len(pre.rows) + 1
       /\ \A i \in 2..Len(pre.rows) : KeptAs(pre.rows[i], post.rows[i], i - 1)

StaleFirstRow(pre) ==
    pre.exists /\ pre.rows # << >> /\ pre.rows[1] # Headers

\* the leading fields of `old` that fit below the canonical header
Fitting(old) ==
    SubSeq(old, 1, IF Len(old) < Len(Headers) - 1 THEN Len(old)
                   ELSE Len(Headers) - 1)

\* C10 as claimed: the old first row is kept as the first data row, so the
\* migrated file has one data row for each row of the old file (and the
\* append adds one more).
C10_FirstRowKeptAsData ==
    [][(Handled("log_deposit") /\ StaleFirstRow(deposits))
       => (/\ deposits'.rows[1] = Headers
           /\ Len(deposits'.rows) = Len(deposits.rows) + 2
           /\ KeptAs(Fitting(deposits.rows[1]), deposits'.rows[2], 1))]_vars

\* an append found `pre` with a stale first row and left `post`: the first
\* row is replaced by the canonical header, each row below it is kept
\* (cut to the five fields that fit) and numbered, one row is added
StaleFirstRowReplaced(pre, post) ==
    StaleFirstRow(pre)
    => /\ post.rows[1] = Headers
       /\ Len(post.rows) = Len(pre.rows) + 1
       /\ \A i \in 2..Len(pre.rows) :
             KeptAs(Fitting(pre.rows[i]), post.rows[i], i - 1)
       /\ post.rows[Len(post.rows)][1] = ToString(Len(pre.rows))

\* C10 amended: the migration takes the old first row as the old header and
\* replaces it; the migrated file has one numbered data row for each row
\* below the old first row.
C10_FirstRowReplaced ==
    [][/\ Handled("log_deposit") => StaleFirstRowReplaced(deposits, deposits')
       /\ Handled("log_withdrawal")
             => StaleFirstRowReplaced(withdrawals, withdrawals')]_vars

C10_Witness ==
    /\ last.op = "log_deposit"
    /\ Len(deposits.rows) = 3
    /\ deposits.rows[1] = Headers
    /\ deposits.rows[2] = <<"1", Now, "100001", "Mira", "4.0", "4.0">>
    /\ deposits.rows[3][1] = "2"

(* ============ update details with every field open to edits =========== *)
WideNameEdits == Texts({"", "Ravi"})
WideFatherEdits == PlainTexts({"", "Dev"})
WideMotherEdits == PlainTexts({"", "Uma"})
WideDobEdits == Texts({"", "02/02/2002", "31/02/2000"})

\* choice 6 with edits of all four fields
EditDetails == Update(WideNameEdits, WideFatherEdits, WideMotherEdits,
                      WideDobEdits)

\* the store after two accounts were created and 1.0 was deposited on the
\* first
FreshRecord ==
    [name |-> "Asha", fathers_name |-> "Ram", mother_name |-> "Sita",
     dob |-> "01/01/2000", balance |-> Fin(0), transactions |-> << >>]

DetailsStore ==
    [a \in {"100000", "100001"} |->
        IF a = "100000"
        THEN [FreshRecord EXCEPT
                 !.balance = Fin(1),
                 !.transactions = <<Description("Deposited", Fin(1))>>]
        ELSE FreshRecord]

\* the state of the menu after those three operations
InitDetails ==
    /\ pd = TRUE
    /\ phase = "running"
    /\ banking = DetailsStore
    /\ order = <<"100000", "100001">>
    /\ xlsx = save_banking_to_excel(pd, DetailsStore, <<"100000", "100001">>,
                                    NoFile)
    /\ deposits = log_deposit("100000", Fin(1), DetailsStore, NoFile)
    /\ withdrawals = NoFile
    /\ last = Outcome("deposit", "100000", Fin(1), "ok")
    /\ depSum = [a \in {"100000", "100001"} |->
                    IF a = "100000" THEN Fin(1) ELSE Fin(0)]
    /\ wdSum = [a \in {"100000", "100001"} |-> Fin(0)]

NextDetails == EditDetails

SpecDetails == InitDetails /\ [][NextDetails]_vars

\* every record but the one under acc_no is as it was, and so is every key
OthersUntouched(acc_no) ==
    /\ DOMAIN banking' = DOMAIN banking
    /\ order' = order
    /\ \A a \in DOMAIN banking \ {acc_no} : banking'[a] = banking[a]

\* C11: update details changes only the fields typed non-blank; a blank
\* text keeps the field; a date of birth that does not parse is rejected
\* and keeps dob while the other non-blank fields are applied; balance,
\* transaction sequence, account number and all other accounts are as they
\* were.
C11_UpdateChangesOnlySuppliedFields ==
    [][(/\ Handled("update")
        /\ last'.acc_no \in DOMAIN banking
        /\ last'.result \in {"ok", "InvalidDate"})
       => LET a == last'.acc_no
              t == last'.typed
              u == banking[a]
              v == banking'[a]
          IN /\ v.name = IF t.name.core = "" THEN u.name ELSE t.name.core
             /\ v.fathers_name =
                   IF t.father.core = "" THEN u.fathers_name ELSE t.father.core
             /\ v.mother_name =
                   IF t.mother.core = "" THEN u.mother_name ELSE t.mother.core
             /\ t.dob.core = "" => v.dob = u.dob /\ last'.result = "ok"
             /\ (t.dob.core # "" /\ ~DobParses(t.dob))
                   => v.dob = u.dob /\ last'.result = "InvalidDate"
             /\ (t.dob.core # "" /\ DobParses(t.dob))
                   => v.dob = t.dob.core /\ last'.result = "ok"
             /\ v.balance = u.balance
             /\ v.transactions = u.transactions
             /\ OthersUntouched(a)
             /\ deposits' = deposits
             /\ withdrawals' = withdrawals]_vars

\* a blank name and an invalid date were typed with a father's name: only
\* the father's name changed, on an account that holds money
C11_Witness ==
    /\ last.op = "update"
    /\ last.result = "InvalidDate"
    /\ last.typed.name.core = ""
    /\ last.typed.father.core = "Dev"
    /\ last.typed.dob.core = "31/02/2000"
    /\ last.acc_no \in DOMAIN banking
    /\ banking[last.acc_no].name = "Asha"
    /\ banking[last.acc_no].fathers_name = "Dev"
    /\ banking[last.acc_no].dob = "01/01/2000"
    /\ banking[last.acc_no].balance = Fin(1)
    /\ Cardinality(DOMAIN banking) = 2

(* ================= the ledger: money operations and logs ============== *)
LedgerDeposit == DepositUpTo(MaxLedgerLog)
LedgerWithdraw == WithdrawUpTo(MaxLedgerLog)
LedgerChequeDeposit == ChequeDepositUpTo(MaxLedgerLog)

\* one run of the menu without choice 9
NextLedger ==
    \/ CreateAccount
    \/ LedgerDeposit
    \/ LedgerWithdraw
    \/ LedgerChequeDeposit
    \/ UpdateDetails

\* a deposit log left by a run of the version that wrote no sr_no column
OldDepositLog ==
    [exists |-> TRUE,
     rows |-> <<OldHeaders, <<Now, "100000", "Asha", "5.0", "7.0">>>>]

\* the program starts with no snapshot; the deposit log may be there already
InitLedger ==
    /\ pd = TRUE
    /\ phase = "running"
    /\ banking = << >>
    /\ order = << >>
    /\ xlsx = NoFile
    /\ deposits \in {NoFile, OldDepositLog}
    /\ withdrawals = NoFile
    /\ last = Outcome("start", MissingAccNo, Fin(0), "ok")
    /\ depSum = << >>
    /\ wdSum = << >>

SpecLedger == InitLedger /\ [][NextLedger]_vars

\* the step left `post` with one data row more than `pre`
OneRowAppended(pre, post) == Len(LogData(post)) = Len(LogData(pre)) + 1

\* the step was an accepted operation `op`
Accepted(ops) == last'.op \in ops /\ last'.result = "ok"

\* C12: an accepted deposit or cheque deposit appends exactly one row to the
\* deposit log and leaves the withdrawal log alone; an accepted withdrawal
\* appends exactly one row to the withdrawal log and leaves the deposit log
\* alone; create account, update details and rejected operations append to
\* neither.
C12_OneRowInTheRightLog ==
    [][/\ Accepted({"deposit", "cheque"})
          => OneRowAppended(deposits, deposits') /\ withdrawals' = withdrawals
       /\ Accepted({"withdraw"})
          => OneRowAppended(withdrawals, withdrawals') /\ deposits' = deposits
       /\ ~Accepted({"deposit", "cheque", "withdraw"})
          => deposits' = deposits /\ withdrawals' = withdrawals]_vars

C12_Witness ==
    /\ last.op = "cheque"
    /\ last.result = "ok"
    /\ Len(LogData(deposits)) = 2
    /\ Len(LogData(withdrawals)) = 1

\* the log starts with the header the current version writes
Canonical(file) ==
    file.exists /\ file.rows # << >> /\ file.rows[1] = Headers

\* the data rows of `pre` are the first data rows of `post`
RowsKept(pre, post) ==
    /\ Len(LogData(post)) >= Len(LogData(pre))
    /\ SubSeq(LogData(post), 1, Len(LogData(pre))) = LogData(pre)

\* the last row of `file` is about this step: account number, holder name as
\* stored when the row was written, amount, balance after the operation
RowRecordsStep(file) ==
    LET row == file.rows[Len(file.rows)]
        acc == last'.acc_no
    IN /\ Len(file.rows) >= 2
       /\ row[3] = acc
       /\ row[4] = CsvStr(banking[acc].name)
       /\ row[4] = CsvStr(banking'[acc].name)
       /\ row[5] = FStr(last'.amount)
       /\ row[6] = FStr(banking'[acc].balance)

RowsRecordSteps ==
    /\ Accepted({"deposit", "cheque"}) => RowRecordsStep(deposits')
    /\ Accepted({"withdraw"}) => RowRecordsStep(withdrawals')

\* C13 as stated: every appended row records the account number, the amount,
\* the balance after the operation and the holder name at that time, and no
\* step changes a row that is already in a log.
C13_RowsNeverChange ==
    [][/\ RowsRecordSteps
       /\ RowsKept(deposits, deposits')
       /\ RowsKept(withdrawals, withdrawals')]_vars

\* C13 (amended): every appended row records the account number, the amount,
\* the balance after the operation and the holder name at that time; no step
\* changes a row of a log that starts with the current header (a log in an
\* older format is rewritten by the first append after it).
C13_RowsOfCurrentLogsNeverChange ==
    [][/\ RowsRecordSteps
       /\ Canonical(deposits) => RowsKept(deposits, deposits')
       /\ Canonical(withdrawals) => RowsKept(withdrawals, withdrawals')]_vars

\* a deposit after a change of name: the earlier row keeps the earlier name
C13_Witness ==
    /\ last.op \in {"deposit", "cheque"}
    /\ last.result = "ok"
    /\ Canonical(deposits)
    /\ Len(LogData(deposits)) = 2
    /\ LogData(deposits)[1][3] = last.acc_no
    /\ LogData(deposits)[2][3] = last.acc_no
    /\ LogData(deposits)[1][4] = "Asha"
    /\ LogData(deposits)[2][4] = "NA"
    /\ banking[last.acc_no].name = "NA"

(* ======================= the store within one run ===================== *)
\* the step belongs to a run of the menu (it is not the start of a new run)
WithinRun == last'.op # "start"

\* name, father's name, mother's name and date of birth of `a` are kept
IdentityKept(a) ==
    /\ banking'[a].name = banking[a].name
    /\ banking'[a].fathers_name = banking[a].fathers_name
    /\ banking'[a].mother_name = banking[a].mother_name
    /\ banking'[a].dob = banking[a].dob

\* C14: within a run no account number leaves the store and none moves; a
\* new account number appears only by create account, with balance 0 and no
\* transactions, and create leaves the records already stored as they were;
\* deposit, withdraw and cheque deposit keep name, father's name, mother's
\* name and date of birth of every account.
C14_StoreOnlyGrows ==
    [][WithinRun =>
        /\ DOMAIN banking \subseteq DOMAIN banking'
        /\ Len(order') >= Len(order)
        /\ SubSeq(order', 1, Len(order)) = order
        /\ \A a \in DOMAIN banking' \ DOMAIN banking :
              /\ Handled("create")
              /\ last'.acc_no = a
              /\ banking'[a].balance = Fin(0)
              /\ banking'[a].transactions = << >>
        /\ Handled("create") =>
              /\ Cardinality(DOMAIN banking' \ DOMAIN banking) = 1
              /\ \A a \in DOMAIN banking : banking'[a] = banking[a]
        /\ last'.op \in {"deposit", "withdraw", "cheque"} =>
              \A a \in DOMAIN banking : IdentityKept(a)]_vars

\* a second account was created beside one that holds money, and a deposit
\* was made into an account after its name was changed
C14_Witness ==
    /\ last.op = "deposit"
    /\ last.result = "ok"
    /\ Cardinality(DOMAIN banking) = 2
    /\ banking[last.acc_no].name = "NA"
    /\ banking[last.acc_no].balance = Fin(1)
    /\ \E a \in DOMAIN banking :
          a # last.acc_no /\ banking[a].balance = Fin(0)
             /\ banking[a].transactions = << >>

(* ====================== the snapshot after each save ================== *)
\* the cell holds the value v: a text as itself, a nan as an empty cell
CellShows(cell, v) == IF v = NanCell THEN cell = "" ELSE cell = v

\* the file has one row per account of b, numbered from 1 in the order ord,
\* with the account's fields
SnapshotShows(file, b, ord) ==
    /\ file.exists
    /\ Len(file.rows) = Cardinality(DOMAIN b)
    /\ Len(file.rows) = Len(ord)
    /\ \A i \in 1..Len(file.rows) :
          LET row == file.rows[i]
          IN /\ row.sr_no = i
             /\ row.acc_no = ord[i]
             /\ ord[i] \in DOMAIN b
             /\ CellShows(row.name, b[ord[i]].name)
             /\ CellShows(row.fathers_name, b[ord[i]].fathers_name)
             /\ CellShows(row.mother_name, b[ord[i]].mother_name)
             /\ CellShows(row.dob, b[ord[i]].dob)
             /\ row.balance = b[ord[i]].balance

\* the step completed an operation that changes the store
Mutating ==
    \/ Handled("create")
    \/ Accepted({"deposit", "withdraw", "cheque"})
    \/ Handled("update") /\ last'.result \in {"ok", "InvalidDate"}

\* C15: with pandas present, after every completed create account, accepted
\* deposit, withdrawal or cheque deposit and confirmed update the spreadsheet
\* has one row per account, numbered 1..N in the store's iteration order,
\* showing the account number, names, date of birth and balance held in
\* memory.
C15_SnapshotFollowsStore ==
    [][pd /\ Mutating => SnapshotShows(xlsx', banking', order')]_vars

\* a deposit into the second of two accounts, in a run that loaded a name
\* as nan
C15_Witness ==
    /\ pd
    /\ last.op = "deposit"
    /\ last.result = "ok"
    /\ Len(order) = 2
    /\ order[2] = last.acc_no
    /\ banking[order[1]].name = NanCell
    /\ xlsx.rows[1].name = ""
    /\ xlsx.rows[2].balance = Fin(1)
    /\ xlsx.rows[2].sr_no = 2

(* ===================== the transaction sequences ====================== *)
\* the description an accepted operation appends
Appended(op, amount) ==
    CASE op = "deposit" -> Description("Deposited", amount)
      [] op = "cheque" -> Description("Cheque Deposited", amount)
      [] op = "withdraw" -> Description("Withdrawn", amount)

\* C16: within a run an accepted deposit, withdrawal or cheque deposit
\* appends exactly one description at the end of the account's transaction
\* sequence and leaves the other sequences alone, and every other step
\* leaves all sequences alone; a restart with pandas present (the save at
\* exit, then the load) keeps every account and its balance and leaves every
\* transaction sequence empty.
C16_TransactionsAppendOnly ==
    [][/\ WithinRun /\ Accepted({"deposit", "withdraw", "cheque"}) =>
            \A a \in DOMAIN banking :
                banking'[a].transactions =
                    IF a = last'.acc_no
                    THEN Append(banking[a].transactions,
                                Appended(last'.op, last'.amount))
                    ELSE banking[a].transactions
       /\ WithinRun /\ ~Accepted({"deposit", "withdraw", "cheque"}) =>
            \A a \in DOMAIN banking :
                banking'[a].transactions = banking[a].transactions
       /\ Handled("start") /\ pd =>
            /\ DOMAIN banking' = DOMAIN banking
            /\ \A a \in DOMAIN banking' :
                  /\ banking'[a].transactions = << >>
                  /\ banking'[a].balance = banking[a].balance]_vars

\* after a restart an account holds the money deposited in the run before,
\* with no transaction left to account for it
C16_Witness ==
    /\ pd
    /\ last.op = "start"
    /\ \E a \in DOMAIN banking :
          /\ banking[a].balance = Fin(1)
          /\ banking[a].transactions = << >>
          /\ depSum[a] = Fin(1)
          /\ wdSum[a] = Fin(0)

====
